---- MODULE Spec2Model ----
(***************************************************************************)
(* A model of app.py of app-spacy-dbpedia: the identifier generator        *)
(* (Identifiers), the mapping of one spaCy document to annotations         *)
(* (SpacyApp._add_tool_output) and the top-level call (SpacyApp._annotate).*)
(*                                                                         *)
(* The spaCy pipeline and the DBpedia linker are opaque: what nlp(text)    *)
(* returns is an input, drawn from bounded sets.  Three specifications:    *)
(*   SpecDoc   one _add_tool_output on every bounded pipeline output;      *)
(*   Spec      a sequence of _annotate calls in one process;               *)
(*   SpecConc  two _annotate calls whose Identifiers steps interleave.     *)
(***************************************************************************)
EXTENDS Integers, Sequences, FiniteSets, TLC

VARIABLES
    frame,       \* SpecDoc: the locals of the running _add_tool_output
    pcd,         \* SpecDoc: the loop _add_tool_output is about to run
    identifiers, \* Spec: Identifiers.identifiers (prefix -> counter)
    self_mmif,   \* Spec: self.mmif, [documents, views]
    pc,          \* Spec: position of the _annotate call
    i,           \* Spec: index of the first loop (text documents)
    j,           \* Spec: index of the second loop (views)
    snapshot,    \* Spec: list(self.mmif.views), taken when the second loop starts
    n_in,        \* Spec: number of views of the input MMIF
    stale,       \* Spec: the counters were non-zero when the call started
    fault,       \* Spec: the exception that ended the call, or "none"
    heap,        \* SpecConc: the defaultdict objects, by address
    cur,         \* SpecConc: the address Identifiers.identifiers refers to
    th           \* SpecConc: per thread, the state of its _annotate call

docVars  == <<frame, pcd>>
seqVars  == <<identifiers, self_mmif, pc, i, j, snapshot, n_in, stale, fault>>
concVars == <<heap, cur, th>>
vars     == <<frame, pcd, identifiers, self_mmif, pc, i, j, snapshot, n_in,
              stale, fault, heap, cur, th>>

(***************************** bounds **************************************)
MaxTokens == 3      \* tokens of a pipeline output
MaxShared == 3      \* entities of an output whose spans may coincide
MaxDocs == 2        \* top-level documents of an input MMIF
MaxViews == 2       \* views of an input MMIF

(************************** small helpers **********************************)
Range(f) == {f[k] : k \in DOMAIN f}
SeqsUpTo(S, n) == UNION {[1..m -> S] : m \in 0..n}

\* Python's None where a string or a list is expected, and where an offset is.
None == <<>>
NoneInt == -1

(***************************** Identifiers *********************************)
\* The prefixes _add_tool_output mints with, as character strings.
T == <<"t">>
NC == <<"n", "c">>
S == <<"s">>
NE == <<"n", "e">>
DEP == <<"d", "e", "p">>
REL == <<"r", "e", "l">>
Prefixes == {T, NC, S, NE, DEP, REL}

\* "%d" % n
RECURSIVE Digits(_)
Digits(n) ==
    LET d == <<"0", "1", "2", "3", "4", "5", "6", "7", "8", "9">>[(n % 10) + 1]
    IN IF n < 10 THEN <<d>> ELSE Digits(n \div 10) \o <<d>>

\* "%s%d" % (prefix, n)
Format(prefix, n) == prefix \o Digits(n)

\* collections.defaultdict(int): every key reads 0 until it is written.
EmptyCounters == [p \in Prefixes |-> 0]

Identifiers_reset_keep(ids) == ids
Identifiers_reset(ids) == EmptyCounters

\* Identifiers.new: the counters after the call, and the identifier returned.
Identifiers_new(ids, prefix) ==
    LET nxt == [ids EXCEPT ![prefix] = @ + 1]
    IN [ids |-> nxt, id |-> Format(prefix, nxt[prefix])]

(************************ the pipeline's output ****************************)
\* A token is [idx, len, head]: tok.idx, len(tok.text), tok.head.i; token n
\* of a document d is d.toks[n + 1].  Its tag_, lemma_ and dep_ are opaque
\* strings, modelled by the token they belong to.
Tok(d, n) == d.toks[n + 1]
NTok(d) == Len(d.toks)
Tag(n) == <<"tag", n>>
Lemma(n) == <<"lemma", n>>
Dep(n) == <<"dep", n>>
\* text_orig[p1:p2], named by its bounds.
Slice(p1, p2) == [from |-> p1, to |-> p2]

\* ent._.dbpedia_raw_result: None, or a dict with '@URI' and maybe '@types'.
RawNone == [is_dict |-> FALSE, has_types |-> FALSE, is_str |-> FALSE,
            types |-> <<>>, uri |-> "dbr:none"]
RawNoTypes == [is_dict |-> TRUE, has_types |-> FALSE, is_str |-> FALSE,
               types |-> <<>>, uri |-> "dbr:notypes"]
RawBadTypes == [is_dict |-> TRUE, has_types |-> TRUE, is_str |-> FALSE,
                types |-> <<"DBpedia:Person">>, uri |-> "dbr:badtypes"]
RawStr(types, uri) == [is_dict |-> TRUE, has_types |-> TRUE, is_str |-> TRUE,
                       types |-> types, uri |-> uri]
RawPerson == RawStr(<<"Schema:Person", "DBpedia:Agent", "DBpedia:Person">>, "dbr:Jim_Lehrer")
RawPlace == RawStr(<<"DBpedia:Place">>, "dbr:Boston")
RawResults ==
    {RawNone, RawNoTypes, RawBadTypes, RawPerson, RawPlace,
     RawStr(<<>>, "dbr:empty"),
     RawStr(<<"Schema:Person", "DBpedia:Agent">>, "dbr:agent"),
     RawStr(<<"DBpedia:Place", "DBpedia:Person">>, "dbr:both"),
     RawStr(<<"DBpedia:Organisation", "DBpedia:Device">>, "dbr:PBS"),
     RawStr(<<"DBpedia:Device">>, "dbr:Radio"),
     RawStr(<<"DBpedia:PersonFunction">>, "dbr:Anchor")}

(************************** _add_tool_output *******************************)
\* A Python dict: its keys in insertion order, and their values.
EmptyDict == [keys |-> <<>>, val |-> <<>>]
Has(d, k) == k \in Range(d.keys)
DictPut(d, k, v) ==
    [keys |-> IF Has(d, k) THEN d.keys ELSE Append(d.keys, k),
     val |-> [x \in Range(d.keys) \cup {k} |-> IF x = k THEN v ELSE d.val[x]]]

\* add_annotation: the view's annotations with the new one appended; a
\* property whose value is None is not added.
add_annotation(anns, attype, identifier, doc_id, start, end, properties) ==
    Append(anns, [at_type |-> attype, id |-> identifier, document |-> doc_id,
                  start |-> start, end |-> end, properties |-> properties])

interested_types == <<"Person", "Place", "Organisation", "Device">>
\* prefix + category
Needle(category) == CASE category = "Person" -> "DBpedia:Person"
                      [] category = "Place" -> "DBpedia:Place"
                      [] category = "Organisation" -> "DBpedia:Organisation"
                      [] category = "Device" -> "DBpedia:Device"
\* needle in name, for the names of RawResults
SubstringOf(needle, name) ==
    \/ needle = name
    \/ needle = "DBpedia:Person" /\ name = "DBpedia:PersonFunction"
\* needle in ent._.dbpedia_raw_result['@types'] (the names joined by commas)
InTypes(needle, types) == \E k \in DOMAIN types : SubstringOf(needle, types[k])

find_dbpedia_type_raise(raw) ==
    IF ~raw.is_dict \/ ~raw.has_types \/ ~raw.is_str THEN "Raise"
    ELSE LET hits == {k \in DOMAIN interested_types :
                        InTypes(Needle(interested_types[k]), raw.types)}
         IN IF hits = {} THEN "None"
            ELSE interested_types[CHOOSE k \in hits : \A m \in hits : k <= m]
\* find_dbpedia_type: the first interested type found in '@types'; "None"
\* when there is none or when the lookup raises (the bare except).
find_dbpedia_type(raw) ==
    IF ~raw.is_dict \/ ~raw.has_types \/ ~raw.is_str THEN "None"
    ELSE LET hits == {k \in DOMAIN interested_types :
                        InTypes(Needle(interested_types[k]), raw.types)}
         IN IF hits = {} THEN "None"
            ELSE interested_types[CHOOSE k \in hits : \A m \in hits : k <= m]

\* The locals of _add_tool_output when nlp(input_text) has returned.
NewFrame(spacy_doc, ids, doc_id) ==
    [spacy_doc |-> spacy_doc, doc_id |-> doc_id, ids |-> ids, anns |-> <<>>,
     fault |-> "none", tok_idx |-> EmptyDict, entity_dict |-> EmptyDict,
     governer_dict |-> EmptyDict]

Raise(L, exc) == [L EXCEPT !.fault = exc]

\* lines 152-159
RECURSIVE TokenLoopFrom(_, _)
TokenLoopFrom(L, n) ==
    IF n >= NTok(L.spacy_doc) THEN L
    ELSE LET tok == Tok(L.spacy_doc, n)
             p1 == tok.idx
             p2 == p1 + tok.len
             m == Identifiers_new(L.ids, T)
         IN TokenLoopFrom(
              [L EXCEPT !.tok_idx = DictPut(@, n, <<p1, p2>>),
                        !.ids = m.ids,
                        !.anns = add_annotation(@, "Token", m.id, L.doc_id, p1, p2,
                                   [pos |-> Tag(n), lemma |-> Lemma(n),
                                    text |-> Slice(p1, p2), i |-> n])],
              n + 1)
TokenLoop(L) == IF L.fault # "none" THEN L ELSE TokenLoopFrom(L, 0)

span_of_end(tok_idx, start, end) ==
    IF ~Has(tok_idx, start) \/ ~Has(tok_idx, end)
    THEN [fault |-> "KeyError", p1 |-> NoneInt, p2 |-> NoneInt]
    ELSE [fault |-> "none", p1 |-> tok_idx.val[start][1], p2 |-> tok_idx.val[end][2]]
span_of_clamped(tok_idx, start, end) ==
    IF start >= end \/ ~Has(tok_idx, start) \/ ~Has(tok_idx, end - 1)
    THEN [fault |-> "KeyError", p1 |-> NoneInt, p2 |-> NoneInt]
    ELSE [fault |-> "none", p1 |-> tok_idx.val[start][1], p2 |-> tok_idx.val[end - 1][2]]
\* p1 = tok_idx[start][0]; p2 = tok_idx[end - 1][1]: a key tok_idx does not
\* hold raises KeyError.
span_of(tok_idx, start, end) ==
    IF ~Has(tok_idx, start) \/ ~Has(tok_idx, end - 1)
    THEN [fault |-> "KeyError", p1 |-> NoneInt, p2 |-> NoneInt]
    ELSE [fault |-> "none", p1 |-> tok_idx.val[start][1], p2 |-> tok_idx.val[end - 1][2]]

\* lines 160-164 (prefix "nc") and 165-169 (prefix "s")
RECURSIVE UnitLoopFrom(_, _, _, _, _)
UnitLoopFrom(L, units, attype, prefix, k) ==
    IF k > Len(units) THEN L
    ELSE LET sp == span_of(L.tok_idx, units[k].start, units[k].end)
             m == Identifiers_new(L.ids, prefix)
         IN IF sp.fault # "none" THEN Raise(L, sp.fault)
            ELSE UnitLoopFrom(
                   [L EXCEPT !.ids = m.ids,
                             !.anns = add_annotation(@, attype, m.id, L.doc_id,
                                        sp.p1, sp.p2, [text |-> Slice(sp.p1, sp.p2)])],
                   units, attype, prefix, k + 1)
ChunkLoop(L) ==
    IF L.fault # "none" THEN L
    ELSE UnitLoopFrom(L, L.spacy_doc.chunks, "NounChunk", NC, 1)
SentLoop(L) ==
    IF L.fault # "none" THEN L
    ELSE UnitLoopFrom(L, L.spacy_doc.sents, "Sentence", S, 1)

\* lines 186-196.  ent.root of an empty span is the library's business: the
\* input says whether it raises (root = NoneInt) or which token it returns.
RECURSIVE EntLoopFrom(_, _)
EntLoopFrom(L, k) ==
    IF k > Len(L.spacy_doc.ents) THEN L
    ELSE LET ent == L.spacy_doc.ents[k]
             category == find_dbpedia_type(ent.raw)
             sp == span_of(L.tok_idx, ent.start, ent.end)
             p1_root == Tok(L.spacy_doc, ent.root).idx
             p2_root == p1_root + Tok(L.spacy_doc, ent.root).len
             properties == [text |-> Slice(sp.p1, sp.p2), category |-> category,
                            root_i |-> ent.root, root_text |-> Slice(p1_root, p2_root),
                            kb_id |-> ent.raw.uri]
             m == Identifiers_new(L.ids, NE)
         IN IF category = "Raise" THEN Raise(L, "LookupError")
            ELSE IF category = "None" THEN EntLoopFrom(L, k + 1)
            ELSE IF sp.fault # "none" THEN Raise(L, sp.fault)
            ELSE IF ent.root = NoneInt THEN Raise(L, "ValueError")
            ELSE EntLoopFrom(
                   [L EXCEPT !.entity_dict = DictPut(@, ent.root, properties),
                             !.ids = m.ids,
                             !.anns = add_annotation(@, "NamedEntity", m.id, L.doc_id,
                                        sp.p1, sp.p2, properties)],
                   k + 1)
EntLoop(L) == IF L.fault # "none" THEN L ELSE EntLoopFrom(L, 1)

governer_key_head(L, n) == IF Tok(L.spacy_doc, n).head # n THEN Has(L.entity_dict, n) ELSE FALSE
\* line 213: tok.i in entity_dict
governer_key(L, n) == Has(L.entity_dict, n)

\* lines 206-217
RECURSIVE DepLoopFrom(_, _)
DepLoopFrom(L, n) ==
    IF n >= NTok(L.spacy_doc) THEN L
    ELSE LET tok == Tok(L.spacy_doc, n)
             gov == Tok(L.spacy_doc, tok.head)
             properties_governer ==
                 [dep |-> Dep(n), governer_text |-> Slice(gov.idx, gov.idx + gov.len),
                  governer_lemma |-> Lemma(tok.head), governer_i |-> tok.head]
             properties ==
                 [dependent_text |-> Slice(tok.idx, tok.idx + tok.len),
                  dependent_lemma |-> Lemma(n), dependent_i |-> n,
                  dep |-> Dep(n), governer_text |-> Slice(gov.idx, gov.idx + gov.len),
                  governer_lemma |-> Lemma(tok.head), governer_i |-> tok.head]
             m == Identifiers_new(L.ids, DEP)
         IN DepLoopFrom(
              [L EXCEPT !.governer_dict = IF governer_key(L, n)
                                          THEN DictPut(@, n, properties_governer) ELSE @,
                        !.ids = m.ids,
                        !.anns = add_annotation(@, "Dependency", m.id, L.doc_id,
                                   NoneInt, NoneInt, properties)],
              n + 1)
DepLoop(L) == IF L.fault # "none" THEN L ELSE DepLoopFrom(L, 0)

related_any(L, i1, i2) ==
    i1 # i2 /\ L.governer_dict.val[i1].governer_i = L.governer_dict.val[i2].governer_i
\* line 222
related(L, i1, i2) ==
    i1 < i2 /\ L.governer_dict.val[i1].governer_i = L.governer_dict.val[i2].governer_i

\* lines 220-231: the pairs (i1, i2) of entity_dict's keys, i2 running fastest
RECURSIVE RelLoopFrom(_, _)
RelLoopFrom(L, k) ==
    LET keys == L.entity_dict.keys
        n == Len(keys)
    IN IF k >= n * n THEN L
       ELSE LET i1 == keys[(k \div n) + 1]
                i2 == keys[(k % n) + 1]
                g1 == L.governer_dict.val[i1]
                g2 == L.governer_dict.val[i2]
                e1 == L.entity_dict.val[i1]
                e2 == L.entity_dict.val[i2]
                m == Identifiers_new(L.ids, REL)
            IN IF i1 < i2 /\ (~Has(L.governer_dict, i1) \/ ~Has(L.governer_dict, i2))
               THEN Raise(L, "KeyError")
               ELSE IF ~related(L, i1, i2) THEN RelLoopFrom(L, k + 1)
               ELSE RelLoopFrom(
                      [L EXCEPT !.ids = m.ids,
                                !.anns = add_annotation(@, "GenericRelation", m.id,
                                           L.doc_id, NoneInt, NoneInt,
                                           [rel_text |-> g1.governer_text,
                                            rel_lemma |-> g1.governer_lemma,
                                            rel_i |-> g1.governer_i,
                                            e1_text |-> e1.text, e1_root_i |-> e1.root_i,
                                            e1_kb_id |-> e1.kb_id, e1_dep |-> g1.dep,
                                            e2_text |-> e2.text, e2_root_i |-> e2.root_i,
                                            e2_kb_id |-> e2.kb_id, e2_dep |-> g2.dep])],
                      k + 1)
RelLoop(L) == IF L.fault # "none" THEN L ELSE RelLoopFrom(L, 0)

\* _add_tool_output from the return of nlp(input_text) to its end.
annotate_doc(spacy_doc, ids, doc_id) ==
    RelLoop(DepLoop(EntLoop(SentLoop(ChunkLoop(TokenLoop(
        NewFrame(spacy_doc, ids, doc_id)))))))

(********************* bounded pipeline outputs ****************************)
TokLens == {1, 2}      \* len(tok.text)
TokSpaces == {0, 1}    \* len(tok.whitespace_)
TokShapes(n) == [1..n -> [len : TokLens, ws : TokSpaces]]

\* tok.idx of the k-th token: the first token starts the text, every other
\* one follows the previous token and its trailing space.
RECURSIVE Offset(_, _)
Offset(shape, k) ==
    IF k = 1 THEN 0 ELSE Offset(shape, k - 1) + shape[k - 1].len + shape[k - 1].ws

Toks(shape, heads) ==
    [k \in DOMAIN shape |-> [idx |-> Offset(shape, k), len |-> shape[k].len,
                             head |-> heads[k]]]

\* The heads of a dependency parse: every token reaches a token that is its
\* own head (a sentence root).
RECURSIVE Ancestor(_, _, _)
Ancestor(heads, n, steps) ==
    IF steps = 0 THEN n ELSE Ancestor(heads, heads[n + 1], steps - 1)
Forests(n) ==
    {h \in [1..n -> 0..(n - 1)] :
        \A k \in 0..(n - 1) : LET r == Ancestor(h, k, n) IN h[r + 1] = r}
FlatHeads(n) == [k \in 1..n |-> 0]
PlainShape(n) == [k \in 1..n |-> [len |-> 2, ws |-> 1]]

TokenRanges(n) == {[start |-> a, end |-> b] : a \in 0..n, b \in 0..n}
AnyRanges(n) == {r \in TokenRanges(n) : r.start <= r.end}
UnitLists(n) == {<<>>} \cup {<<r>> : r \in AnyRanges(n)}

\* An entity is [start, end, root, raw]: ent.start, ent.end, ent.root.i and
\* ent._.dbpedia_raw_result (whose '@URI' is ent.kb_id_).
Roots(r, n) ==
    IF r.start < r.end THEN r.start..(r.end - 1) ELSE {NoneInt} \cup 0..(n - 1)
Ents(n, ranges, raws) ==
    {[start |-> r.start, end |-> r.end, root |-> k, raw |-> w] :
        r \in ranges, k \in 0..(n - 1) \cup {NoneInt}, w \in raws}
WellRooted(n, E) == {e \in E : e.root \in Roots(e, n)}

\* doc.ents as spaCy builds it: non-empty spans, in order, not overlapping.
RECURSIVE EntLists(_, _, _)
EntLists(n, from, raws) ==
    {<<>>} \cup
    UNION {{<<e>> \o rest : rest \in EntLists(n, e.end, raws)} :
             e \in {x \in WellRooted(n, Ents(n, AnyRanges(n), raws)) :
                      x.start >= from /\ x.start < x.end}}

SpacyDoc(toks, chunks, sents, ents) ==
    [toks |-> toks, chunks |-> chunks, sents |-> sents, ents |-> ents]

\* Outputs of n tokens with any token layout and any chunk and sentence
\* ranges, the empty ranges included.
DocsSpans(n) ==
    {SpacyDoc(Toks(sh, FlatHeads(n)), c, s, <<>>) :
       sh \in TokShapes(n), c \in UnitLists(n), s \in UnitLists(n)}
\* Outputs with any token layout and one entity of any range.
DocsEntSpans(n) ==
    {SpacyDoc(Toks(sh, FlatHeads(n)), <<>>, <<>>, <<e>>) :
       sh \in TokShapes(n),
       e \in WellRooted(n, Ents(n, AnyRanges(n), {RawPerson, RawNone}))}
\* Outputs with any parse and any list of entities spaCy can build.
DocsRelations(n) ==
    {SpacyDoc(Toks(PlainShape(n), h), <<[start |-> 0, end |-> 1]>>,
              <<[start |-> 0, end |-> n]>>, e) :
       h \in Forests(n), e \in EntLists(n, 0, {RawPerson, RawPlace, RawNone})}
\* Outputs of one or two tokens whose entities have every linker result.
DocsTypes(n) ==
    IF n \notin {1, 2} THEN {}
    ELSE {SpacyDoc(Toks(PlainShape(n), FlatHeads(n)), <<>>, <<>>, e) :
            e \in EntLists(n, 0, RawResults)}
\* Outputs whose one-token entities may coincide (the code does not rely on
\* spaCy keeping entities apart).
DocsShared(n) ==
    IF n \notin {1, 2} THEN {}
    ELSE {SpacyDoc(Toks(PlainShape(n), FlatHeads(n)), <<>>, <<>>, e) :
            e \in SeqsUpTo({x \in WellRooted(n, Ents(n, AnyRanges(n), {RawPerson, RawNone})) :
                              x.end = x.start + 1}, MaxShared)}

(*************************** idle components *******************************)
SeqIdle ==
    /\ identifiers = EmptyCounters
    /\ self_mmif = [documents |-> <<>>, views |-> <<>>]
    /\ pc = "idle" /\ i = 1 /\ j = 1 /\ snapshot = <<>> /\ n_in = 0
    /\ stale = FALSE /\ fault = "none"
DocIdle == frame = NewFrame(SpacyDoc(<<>>, <<>>, <<>>, <<>>), EmptyCounters, None)
           /\ pcd = "done"
ConcIdle == heap = <<EmptyCounters>> /\ cur = 1 /\ th = <<>>

(******************************* SpecDoc ***********************************)
InitDoc ==
    /\ \E n \in 0..MaxTokens :
         \/ \E d \in DocsSpans(n) : frame = NewFrame(d, EmptyCounters, None)
         \/ \E d \in DocsEntSpans(n) : frame = NewFrame(d, EmptyCounters, None)
         \/ n >= 1 /\ \E d \in DocsRelations(n) : frame = NewFrame(d, EmptyCounters, None)
         \/ \E d \in DocsTypes(n) : frame = NewFrame(d, EmptyCounters, None)
         \/ \E d \in DocsShared(n) : frame = NewFrame(d, EmptyCounters, None)
    /\ pcd = "tokens"
    /\ SeqIdle /\ ConcIdle

After(L, next) == IF L.fault # "none" THEN "raised" ELSE next

DoTokens == pcd = "tokens" /\ frame' = TokenLoop(frame) /\ pcd' = After(frame', "chunks")
            /\ UNCHANGED <<seqVars, concVars>>
DoChunks == pcd = "chunks" /\ frame' = ChunkLoop(frame) /\ pcd' = After(frame', "sents")
            /\ UNCHANGED <<seqVars, concVars>>
DoSents == pcd = "sents" /\ frame' = SentLoop(frame) /\ pcd' = After(frame', "ents")
           /\ UNCHANGED <<seqVars, concVars>>
DoEnts == pcd = "ents" /\ frame' = EntLoop(frame) /\ pcd' = After(frame', "deps")
          /\ UNCHANGED <<seqVars, concVars>>
DoDeps == pcd = "deps" /\ frame' = DepLoop(frame) /\ pcd' = After(frame', "rels")
          /\ UNCHANGED <<seqVars, concVars>>
DoRels == pcd = "rels" /\ frame' = RelLoop(frame) /\ pcd' = After(frame', "done")
          /\ UNCHANGED <<seqVars, concVars>>

NextDoc == DoTokens \/ DoChunks \/ DoSents \/ DoEnts \/ DoDeps \/ DoRels
SpecDoc == InitDoc /\ [][NextDoc]_vars

(***************** what _add_tool_output was given and gave ****************)
AnnsOfType(anns, t) == SelectSeq(anns, LAMBDA a : a.at_type = t)
LookupFails(e) == ~e.raw.is_dict \/ ~e.raw.has_types \/ ~e.raw.is_str
\* An entity has a category when its lookup succeeds and '@types' holds
\* DBpedia:Person, DBpedia:Place, DBpedia:Organisation or DBpedia:Device.
HasCategory(e) ==
    /\ ~LookupFails(e)
    /\ \E c \in Range(interested_types) : InTypes(Needle(c), e.raw.types)
Categorized(d) == SelectSeq(d.ents, HasCategory)
IsEmpty(u) == u.start = u.end
\* The loops that have run to their end.
PastChunks == pcd \in {"sents", "ents", "deps", "rels", "done"}
PastSents == pcd \in {"ents", "deps", "rels", "done"}
PastEnts == pcd \in {"deps", "rels", "done"}
Chunks == frame.spacy_doc.chunks
Sents == frame.spacy_doc.sents
ChunkAnns == AnnsOfType(frame.anns, "NounChunk")
SentAnns == AnnsOfType(frame.anns, "Sentence")
EntAnns == AnnsOfType(frame.anns, "NamedEntity")
DepAnns == AnnsOfType(frame.anns, "Dependency")
RelAnns == AnnsOfType(frame.anns, "GenericRelation")
StartOffset(n) == Tok(frame.spacy_doc, n).idx
EndOffset(n) == Tok(frame.spacy_doc, n).idx + Tok(frame.spacy_doc, n).len

\* C4: every annotation emitted for a noun chunk, a sentence or a categorized
\* entity with a non-empty range [start, end) spans from the start offset of
\* token start to the end offset of token end-1; the offset table holds
\* (tok.idx, tok.idx + len(tok.text)) for every token; a loop that ran to its
\* end emitted one annotation per unit.
SpansOf(units, as) ==
    /\ Len(as) <= Len(units)
    /\ \A k \in 1..Len(as) :
         ~IsEmpty(units[k]) =>
            /\ as[k].start = StartOffset(units[k].start)
            /\ as[k].end = EndOffset(units[k].end - 1)
            /\ as[k].properties.text = Slice(as[k].start, as[k].end)
C4_SpansFromOffsetTable ==
    /\ pcd # "tokens" =>
         /\ Range(frame.tok_idx.keys) = 0..(NTok(frame.spacy_doc) - 1)
         /\ \A n \in 0..(NTok(frame.spacy_doc) - 1) :
              frame.tok_idx.val[n] = <<StartOffset(n), EndOffset(n)>>
    /\ SpansOf(Chunks, ChunkAnns)
    /\ SpansOf(Sents, SentAnns)
    /\ SpansOf(Categorized(frame.spacy_doc), EntAnns)
    /\ PastChunks => Len(ChunkAnns) = Len(Chunks)
    /\ PastSents => Len(SentAnns) = Len(Sents)
    /\ PastEnts => Len(EntAnns) = Len(Categorized(frame.spacy_doc))
C4_Witness ==
    /\ pcd = "done"
    /\ \E k \in 1..Len(ChunkAnns) : ~IsEmpty(Chunks[k])
    /\ \E k \in 1..Len(SentAnns) : Sents[k].end >= Sents[k].start + 2
    /\ \E k \in 1..Len(EntAnns) :
         LET e == Categorized(frame.spacy_doc)[k]
         IN e.end >= e.start + 2 /\ e.start >= 1 /\ EntAnns[k].start # e.start

\* The unit the loops would take up next: the first chunk, sentence or
\* categorized entity that has no annotation yet.
HasNextUnit ==
    \/ Len(ChunkAnns) < Len(Chunks)
    \/ Len(SentAnns) < Len(Sents)
    \/ Len(EntAnns) < Len(Categorized(frame.spacy_doc))
NextUnit ==
    IF Len(ChunkAnns) < Len(Chunks) THEN Chunks[Len(ChunkAnns) + 1]
    ELSE IF Len(SentAnns) < Len(Sents) THEN Sents[Len(SentAnns) + 1]
    ELSE Categorized(frame.spacy_doc)[Len(EntAnns) + 1]
AtEdge(u) == u.start = 0 \/ u.start = NTok(frame.spacy_doc)

\* C5 as stated: no annotation is ever emitted for a noun chunk, a sentence
\* or an entity whose range is empty.
NoAnnotationOf(units, as) == \A k \in 1..Len(as) : k <= Len(units) => ~IsEmpty(units[k])
C5_EmptyRangeAlwaysFaults ==
    /\ NoAnnotationOf(Chunks, ChunkAnns)
    /\ NoAnnotationOf(Sents, SentAnns)
    /\ NoAnnotationOf(Categorized(frame.spacy_doc), EntAnns)

\* C5 as amended: the span computation of an empty range [start, start)
\* raises KeyError, and the unit and all later ones get no annotation, exactly
\* when start is 0 or the number of tokens; for 0 < start < number of tokens
\* nothing is raised by the span computation and the annotation emitted
\* spans from the start offset of token start to the end offset of token
\* start-1.  KeyError is raised in no other case.
InvertedSpans(units, as) ==
    \A k \in 1..Len(as) :
        (k <= Len(units) /\ IsEmpty(units[k])) =>
            /\ ~AtEdge(units[k])
            /\ as[k].start = StartOffset(units[k].start)
            /\ as[k].end = EndOffset(units[k].start - 1)
C5_EmptyRangeFaultsAtEdges ==
    /\ InvertedSpans(Chunks, ChunkAnns)
    /\ InvertedSpans(Sents, SentAnns)
    /\ InvertedSpans(Categorized(frame.spacy_doc), EntAnns)
    /\ (pcd = "raised" /\ frame.fault = "KeyError") =>
          HasNextUnit /\ IsEmpty(NextUnit) /\ AtEdge(NextUnit)
    /\ (HasNextUnit /\ IsEmpty(NextUnit) /\ AtEdge(NextUnit)) =>
          pcd \in {"tokens", "chunks", "sents", "ents", "raised"}
    /\ (pcd = "raised" /\ frame.fault = "ValueError") =>
          /\ HasNextUnit /\ IsEmpty(NextUnit) /\ ~AtEdge(NextUnit)
          /\ Len(ChunkAnns) = Len(Chunks) /\ Len(SentAnns) = Len(Sents)
C5_Witness ==
    /\ pcd = "done"
    /\ \E k \in 1..Len(ChunkAnns) : IsEmpty(Chunks[k]) /\ ChunkAnns[k].start > ChunkAnns[k].end
    /\ \E k \in 1..Len(SentAnns) : IsEmpty(Sents[k])

(* Relations *)
CatEnts == Categorized(frame.spacy_doc)
EntityRoots == {CatEnts[k].root : k \in 1..Len(CatEnts)}
\* The entity the registry holds at a root position: the last one found there.
EntityAt(r) ==
    CatEnts[CHOOSE k \in 1..Len(CatEnts) :
              CatEnts[k].root = r /\ \A m \in 1..Len(CatEnts) : CatEnts[m].root = r => m <= k]
Governor(n) == Tok(frame.spacy_doc, n).head
SameGovernorPairs ==
    {p \in EntityRoots \X EntityRoots : p[1] < p[2] /\ Governor(p[1]) = Governor(p[2])}
RecordsOf(p) ==
    {k \in 1..Len(RelAnns) : RelAnns[k].properties.e1_root_i = p[1]
                             /\ RelAnns[k].properties.e2_root_i = p[2]}

\* C3: when _add_tool_output has ended, there is exactly one relation record
\* for every pair of distinct root positions of categorized entities that
\* have the same governor, and none for any other pair; its rel_i is the
\* common governor, e1 is the entity at the smaller position and e2 the one
\* at the larger; k entities under one governor give k*(k-1)/2 records.
C3_RelationPerSameGovernorPair ==
    pcd = "done" =>
       /\ \A p \in SameGovernorPairs : Cardinality(RecordsOf(p)) = 1
       /\ Len(RelAnns) = Cardinality(SameGovernorPairs)
       /\ \A k \in 1..Len(RelAnns) :
            LET r == RelAnns[k].properties
            IN /\ <<r.e1_root_i, r.e2_root_i>> \in SameGovernorPairs
               /\ r.rel_i = Governor(r.e1_root_i)
               /\ r.rel_lemma = Lemma(r.rel_i)
               /\ r.rel_text = Slice(StartOffset(r.rel_i), EndOffset(r.rel_i))
               /\ r.e1_kb_id = EntityAt(r.e1_root_i).raw.uri
               /\ r.e2_kb_id = EntityAt(r.e2_root_i).raw.uri
               /\ r.e1_text = Slice(StartOffset(EntityAt(r.e1_root_i).start),
                                    EndOffset(EntityAt(r.e1_root_i).end - 1))
               /\ r.e2_text = Slice(StartOffset(EntityAt(r.e2_root_i).start),
                                    EndOffset(EntityAt(r.e2_root_i).end - 1))
               /\ r.e1_dep = Dep(r.e1_root_i) /\ r.e2_dep = Dep(r.e2_root_i)
       /\ \A g \in 0..(NTok(frame.spacy_doc) - 1) :
            LET under == {r \in EntityRoots : Governor(r) = g}
                recs == {k \in 1..Len(RelAnns) : RelAnns[k].properties.rel_i = g}
            IN 2 * Cardinality(recs) = Cardinality(under) * (Cardinality(under) - 1)
C3_Witness ==
    /\ pcd = "done"
    /\ Len(RelAnns) = 3
    /\ \E g \in 0..(NTok(frame.spacy_doc) - 1) :
         Cardinality({r \in EntityRoots : Governor(r) = g}) = 3

\* C7: an entity whose type lookup raises (no raw result, no '@types', or a
\* '@types' that is no string) never ends the call; once the entity loop has
\* run, the named-entity annotations are those of the categorized entities,
\* one each and in order, the registry holds the roots of the categorized
\* entities only, the "ne" counter counts the categorized entities only, and
\* no relation names another root.
C7_FailedLookupIsNoCategory ==
    /\ frame.fault # "LookupError"
    /\ PastEnts =>
         /\ Len(EntAnns) = Len(CatEnts)
         /\ \A k \in 1..Len(EntAnns) :
              /\ ~LookupFails(CatEnts[k])
              /\ EntAnns[k].properties.kb_id = CatEnts[k].raw.uri
              /\ EntAnns[k].properties.root_i = CatEnts[k].root
              /\ EntAnns[k].id = Format(NE, k)
         /\ frame.ids[NE] = Len(CatEnts)
         /\ Range(frame.entity_dict.keys) = EntityRoots
         /\ \A k \in 1..Len(RelAnns) :
              {RelAnns[k].properties.e1_root_i, RelAnns[k].properties.e2_root_i}
                 \subseteq EntityRoots
C7_Witness ==
    /\ pcd = "done"
    /\ \E k \in 1..Len(frame.spacy_doc.ents), m \in 1..Len(frame.spacy_doc.ents) :
         /\ k < m
         /\ LookupFails(frame.spacy_doc.ents[k])
         /\ HasCategory(frame.spacy_doc.ents[m])
         /\ frame.spacy_doc.ents[k].root \notin EntityRoots
    /\ Len(EntAnns) = 1

\* C9: when the relation loop starts, governer_dict has the keys of
\* entity_dict and no others, and the relation loop never raises: a call
\* that was ended by an exception never got as far as the dependency loop.
C9_GovernorTableCoversRegistry ==
    /\ pcd \in {"rels", "done"} =>
         Range(frame.governer_dict.keys) = Range(frame.entity_dict.keys)
    /\ pcd = "raised" => Len(DepAnns) = 0
C9_Witness ==
    /\ pcd = "rels"
    /\ Len(frame.entity_dict.keys) >= 2
    /\ Len(CatEnts) > Len(frame.entity_dict.keys)
    /\ \E r \in Range(frame.entity_dict.keys) : Governor(r) = r

(******************************* _annotate *********************************)
\* Pipeline outputs of the texts the input documents of Spec hold: one
\* token and one sentence; three tokens, a chunk, a sentence and two
\* persons under one governor.
CatA == SpacyDoc(Toks(PlainShape(1), <<0>>), <<>>, <<[start |-> 0, end |-> 1]>>, <<>>)
CatB == SpacyDoc(Toks(PlainShape(3), <<1, 1, 1>>), <<[start |-> 0, end |-> 1]>>,
                 <<[start |-> 0, end |-> 3]>>,
                 <<[start |-> 0, end |-> 1, root |-> 0, raw |-> RawPerson],
                   [start |-> 2, end |-> 3, root |-> 2, raw |-> RawPerson]>>)

\* A document of the MMIF: its at_type is TextDocument or not, it has a
\* location or an inline text, the location can be read or not, and the
\* pipeline returns sdoc for its text.
MmifDoc(is_text, location, net_ok, sdoc) ==
    [id |-> None, is_text |-> is_text, location |-> location, net_ok |-> net_ok,
     sdoc |-> sdoc]
NonText == MmifDoc(FALSE, FALSE, TRUE, CatA)
InlineA == MmifDoc(TRUE, FALSE, TRUE, CatA)
RemoteB == MmifDoc(TRUE, TRUE, TRUE, CatB)
RemoteFail == MmifDoc(TRUE, TRUE, FALSE, CatA)
TopKinds == {NonText, InlineA, RemoteB, RemoteFail}
ViewDocLists ==
    {<<>>, <<NonText>>, <<InlineA>>, <<RemoteFail>>, <<InlineA, NonText>>}
WithIds(docs, tag) == [k \in DOMAIN docs |-> [docs[k] EXCEPT !.id = <<tag, k>>]]
InputView(k, docs) ==
    [id |-> <<"v", k>>, app |-> "other", contains_document |-> None,
     docs |-> WithIds(docs, "td"), annotations |-> <<>>]
Mmifs ==
    {[documents |-> WithIds(ds, "d"),
      views |-> [k \in DOMAIN vs |-> InputView(k, vs[k])]] :
        ds \in SeqsUpTo(TopKinds, MaxDocs), vs \in SeqsUpTo(ViewDocLists, MaxViews)}

\* text_documents
text_documents(documents) == SelectSeq(documents, LAMBDA d : d.is_text)

read_text_caught(doc) == "none"
\* _read_text: the exception it raises, "none" when it returns the text.
read_text(doc) ==
    IF doc.location THEN (IF doc.net_ok THEN "none" ELSE "URLError") ELSE "none"

\* _add_tool_output: _read_text, nlp(input_text), and the loops.
add_tool_output(doc, ids, doc_id) ==
    IF read_text(doc) # "none"
    THEN Raise(NewFrame(doc.sdoc, ids, doc_id), read_text(doc))
    ELSE annotate_doc(doc.sdoc, ids, doc_id)

\* _new_view: a view signed by the app, its contains naming docid.
new_view(views, docid) ==
    [id |-> <<"v", Len(views) + 1>>, app |-> "spacy", contains_document |-> docid,
     docs |-> <<>>, annotations |-> <<>>]

\* view.id + ':' + doc.id
DocId(view_id, id) == view_id \o <<":">> \o id

new_view_ids_reset(ids) == EmptyCounters
\* The counters a new view starts from: Identifiers is not reset per view.
new_view_ids(ids) == ids

\* lines 99-101: the documents of one view, into one new view
RECURSIVE ViewDocsFrom(_, _, _, _)
ViewDocsFrom(view, docs, k, acc) ==
    IF k > Len(docs) \/ acc.fault # "none" THEN acc
    ELSE LET r == add_tool_output(docs[k], acc.ids, DocId(view.id, docs[k].id))
         IN ViewDocsFrom(view, docs, k + 1,
                         [ids |-> r.ids, anns |-> acc.anns \o r.anns, fault |-> r.fault])

IterViewsLive == self_mmif.views
\* line 95: the second loop runs over list(self.mmif.views)
IterViews == snapshot

InitSeq ==
    /\ SeqIdle
    /\ DocIdle /\ ConcIdle

\* line 90-91: Identifiers.reset() and self.mmif
Call ==
    /\ pc = "idle"
    /\ \E m \in Mmifs : self_mmif' = m /\ n_in' = Len(m.views)
    /\ identifiers' = Identifiers_reset(identifiers)
    /\ stale' = (identifiers # EmptyCounters)
    /\ pc' = "docs" /\ i' = 1 /\ j' = 1 /\ snapshot' = <<>> /\ fault' = "none"
    /\ UNCHANGED <<docVars, concVars>>

\* lines 92-94, one text document
DocStep ==
    /\ pc = "docs" /\ i <= Len(text_documents(self_mmif.documents))
    /\ LET doc == text_documents(self_mmif.documents)[i]
           view == new_view(self_mmif.views, doc.id)
           r == add_tool_output(doc, new_view_ids(identifiers), None)
       IN /\ self_mmif' = [self_mmif EXCEPT
                             !.views = Append(@, [view EXCEPT !.annotations = r.anns])]
          /\ identifiers' = r.ids
          /\ fault' = r.fault
          /\ IF r.fault # "none" THEN pc' = "raised" /\ i' = i
             ELSE pc' = pc /\ i' = i + 1
    /\ UNCHANGED <<j, snapshot, n_in, stale, docVars, concVars>>

\* line 95
DocsDone ==
    /\ pc = "docs" /\ i > Len(text_documents(self_mmif.documents))
    /\ snapshot' = self_mmif.views
    /\ pc' = "views" /\ j' = 1
    /\ UNCHANGED <<identifiers, self_mmif, i, n_in, stale, fault, docVars, concVars>>

\* lines 96-101, one view
ViewStep ==
    /\ pc = "views" /\ j <= Len(IterViews)
    /\ LET view == IterViews[j]
           nv == new_view(self_mmif.views, None)
           r == ViewDocsFrom(view, view.docs, 1,
                             [ids |-> new_view_ids(identifiers), anns |-> <<>>,
                              fault |-> "none"])
       IN IF view.docs = <<>>
          THEN j' = j + 1 /\ UNCHANGED <<identifiers, self_mmif, pc, fault>>
          ELSE /\ self_mmif' = [self_mmif EXCEPT
                                  !.views = Append(@, [nv EXCEPT !.annotations = r.anns])]
               /\ identifiers' = r.ids
               /\ fault' = r.fault
               /\ IF r.fault # "none" THEN pc' = "raised" /\ j' = j
                  ELSE pc' = pc /\ j' = j + 1
    /\ UNCHANGED <<i, snapshot, n_in, stale, docVars, concVars>>

\* line 102
Return ==
    /\ pc = "views" /\ j > Len(IterViews)
    /\ pc' = "returned"
    /\ UNCHANGED <<identifiers, self_mmif, i, j, snapshot, n_in, stale, fault,
                   docVars, concVars>>

\* The caller has the result, or the exception.  Nothing reads self.mmif of
\* a finished call again (line 91 overwrites it), so it is dropped here; the
\* counters of Identifiers stay as the call left them.
Respond ==
    /\ pc \in {"returned", "raised"}
    /\ pc' = "idle"
    /\ self_mmif' = [documents |-> <<>>, views |-> <<>>]
    /\ i' = 1 /\ j' = 1 /\ snapshot' = <<>> /\ n_in' = 0
    /\ stale' = FALSE /\ fault' = "none"
    /\ UNCHANGED <<identifiers, docVars, concVars>>

Step == DocStep \/ DocsDone \/ ViewStep \/ Return
Next == Call \/ DocStep \/ DocsDone \/ ViewStep \/ Return \/ Respond
Spec == InitSeq /\ [][Next]_vars

(********************** what an _annotate call did *************************)
\* The views the running call has added, and the identifiers it was given,
\* in the order Identifiers.new returned them.
NewViews == SubSeq(self_mmif.views, n_in + 1, Len(self_mmif.views))
RECURSIVE AnnsOfViews(_)
AnnsOfViews(views) ==
    IF views = <<>> THEN <<>> ELSE Head(views).annotations \o AnnsOfViews(Tail(views))
MintedAnns == AnnsOfViews(NewViews)
Minted == [k \in 1..Len(MintedAnns) |-> MintedAnns[k].id]
PrefixOfType(t) == CASE t = "Token" -> T [] t = "NounChunk" -> NC
                     [] t = "Sentence" -> S [] t = "NamedEntity" -> NE
                     [] t = "Dependency" -> DEP [] t = "GenericRelation" -> REL
AnnTypes == {"Token", "NounChunk", "Sentence", "NamedEntity", "Dependency",
             "GenericRelation"}
TextDocs == text_documents(self_mmif.documents)
ReadFails(d) == d.location /\ ~d.net_ok

\* C1: the identifiers Identifiers.new returned during one _annotate call
\* are pairwise distinct, over all the views the call added.
C1_IdentifiersDistinctInCall ==
    \A a \in 1..Len(Minted), b \in 1..Len(Minted) : a # b => Minted[a] # Minted[b]
C1_Witness ==
    /\ pc = "returned"
    /\ Len(NewViews) >= 3
    /\ \A k \in 1..Len(NewViews) : NewViews[k].annotations # <<>>
    /\ \E k \in 1..Len(Minted) : Minted[k] = Format(T, 10)
    /\ \A p \in Prefixes : identifiers[p] >= 1

C6_ReadErrorNotSurfaced == ~(pc = "raised" /\ fault = "URLError")

\* C6 as amended: a call never gets past a document whose location cannot
\* be read: the error ends the call at that document, with no annotation of
\* it in the view just added.
C6_ReadErrorEndsCall ==
    /\ pc # "idle" => \A k \in 1..(i - 1) : ~ReadFails(TextDocs[k])
    /\ pc \in {"views", "returned", "raised"} =>
          \A k \in 1..(j - 1) : k <= Len(snapshot) =>
              \A d \in Range(snapshot[k].docs) : ~ReadFails(d)
    /\ (pc = "raised" /\ fault = "URLError") =>
          LET last == self_mmif.views[Len(self_mmif.views)]
          IN IF i <= Len(TextDocs)
             THEN ReadFails(TextDocs[i]) /\ last.annotations = <<>>
             ELSE /\ \E d \in Range(snapshot[j].docs) : ReadFails(d)
                  /\ \A a \in Range(last.annotations) :
                       \E d \in Range(snapshot[j].docs) :
                          ~ReadFails(d) /\ a.document = DocId(snapshot[j].id, d.id)
C6_Witness ==
    /\ pc = "raised" /\ fault = "URLError"
    /\ i = 2 /\ i <= Len(TextDocs)
    /\ MintedAnns # <<>>

\* C10 as stated: a call that has ended, by returning or by an exception, has
\* added one view per top-level text document and one per view that held
\* documents when the second loop started.
ViewsWithDocs == SelectSeq(snapshot, LAMBDA v : v.docs # <<>>)
ViewLoopViews == SelectSeq(NewViews, LAMBDA v : v.contains_document = None)
DocLoopViews == SelectSeq(NewViews, LAMBDA v : v.contains_document # None)
C10_Counts ==
    pc = "returned" =>
       /\ Len(NewViews) = Len(TextDocs) + Len(ViewsWithDocs)
       /\ Len(DocLoopViews) = Len(TextDocs)
       /\ \A k \in 1..Len(TextDocs) : DocLoopViews[k].contains_document = TextDocs[k].id
C10_SnapshotOnly ==
    pc \in {"views", "returned", "raised"} => j <= Len(snapshot) + 1
C10_DocIds ==
    /\ \A k \in 1..Len(DocLoopViews) :
         \A a \in Range(DocLoopViews[k].annotations) : a.document = None
    /\ Len(ViewLoopViews) <= Len(ViewsWithDocs)
    /\ \A k \in 1..Len(ViewLoopViews) :
         \A a \in Range(ViewLoopViews[k].annotations) :
            \E d \in Range(ViewsWithDocs[k].docs) :
               a.document = DocId(ViewsWithDocs[k].id, d.id)
\* What is left of the call: the rest of the first loop, the second loop
\* over the views there will be when it starts, and the return.
StepsLeft ==
    CASE pc = "docs" -> (Len(TextDocs) + 1 - i) + 1
                        + (Len(self_mmif.views) + (Len(TextDocs) + 1 - i)) + 1
      [] pc = "views" -> (Len(IterViews) + 1 - j) + 1
      [] OTHER -> 0
InLoop ==
    /\ pc = "docs" => i \in 1..(Len(TextDocs) + 1)
    /\ pc = "views" => j \in 1..(Len(IterViews) + 1)
Threads == {1, 2}

\* A second catalogue document: two tokens, no chunk, sentence or entity.
CatPair == SpacyDoc(Toks(PlainShape(2), <<0, 0>>), <<>>, <<>>, <<>>)
ConcDocs == {CatA, CatPair}

\* The prefixes _add_tool_output passes to Identifiers.new for a document,
\* in call order.
Mints(sdoc) ==
    LET anns == annotate_doc(sdoc, EmptyCounters, None).anns
    IN [k \in 1..Len(anns) |-> PrefixOfType(anns[k].at_type)]

Incremented_same(v) == v
\* line 271: the value += 1 writes back
Incremented(v) == v + 1

NewCall(sdoc) ==
    [pc |-> "start", prog |-> Mints(sdoc), k |-> 1, d |-> 0, v |-> 0,
     batch |-> <<>>, raced |-> FALSE]
Running(c) == c.pc \notin {"start", "done"}
\* Another call's write reached the shared counters while c was running.
Raced(c) == IF Running(c) THEN [c EXCEPT !.raced = TRUE] ELSE c

InitConc ==
    /\ heap = <<EmptyCounters>> /\ cur = 1
    /\ \E a \in ConcDocs, b \in ConcDocs : th = <<NewCall(a), NewCall(b)>>
    /\ SeqIdle /\ DocIdle

\* line 276 (called from line 90): a new defaultdict is bound to the class
Reset(t) ==
    /\ th[t].pc = "start"
    /\ heap' = Append(heap, Identifiers_reset(heap[cur]))
    /\ cur' = Len(heap) + 1
    /\ th' = [u \in Threads |->
                IF u = t THEN [th[t] EXCEPT !.pc = "load"] ELSE Raced(th[u])]
    /\ UNCHANGED <<seqVars, docVars>>

\* line 271, the read of cls.identifiers[prefix]
Load(t) ==
    /\ th[t].pc = "load"
    /\ LET c == th[t]
       IN th' = [th EXCEPT ![t] = [c EXCEPT !.pc = "store", !.d = cur,
                                            !.v = heap[cur][c.prog[c.k]]]]
    /\ UNCHANGED <<heap, cur, seqVars, docVars>>

\* line 271, the write to the dictionary that was read
Store(t) ==
    /\ th[t].pc = "store"
    /\ heap' = [heap EXCEPT ![th[t].d][th[t].prog[th[t].k]] = Incremented(th[t].v)]
    /\ th' = [u \in Threads |->
                IF u = t THEN [th[t] EXCEPT !.pc = "format"] ELSE Raced(th[u])]
    /\ UNCHANGED <<cur, seqVars, docVars>>

\* line 272: the identifier, from what cls.identifiers[prefix] reads now
FormatStep(t) ==
    /\ th[t].pc = "format"
    /\ LET c == th[t]
           id == Format(c.prog[c.k], heap[cur][c.prog[c.k]])
       IN th' = [th EXCEPT ![t] = [c EXCEPT !.batch = Append(@, id),
                                            !.k = @ + 1,
                                            !.pc = IF c.k = Len(c.prog) THEN "done"
                                                   ELSE "load"]]
    /\ UNCHANGED <<heap, cur, seqVars, docVars>>

NextConc == \E t \in Threads : Reset(t) \/ Load(t) \/ Store(t) \/ FormatStep(t)
SpecConc == InitConc /\ [][NextConc]_vars

HasDuplicate(batch) ==
    \E a \in 1..Len(batch), b \in 1..Len(batch) : a < b /\ batch[a] = batch[b]

\* C2: nothing guards the shared counters, so the writes of one call reach
\* the other while it runs; the identifiers one call receives hold a
\* duplicate only when that happened (a call that ran undisturbed has none),
\* and an interleaving in which one call receives the same identifier twice
\* is reachable.
C2_DuplicateOnlyByRace ==
    \A t \in DOMAIN th : HasDuplicate(th[t].batch) => th[t].raced
\* One call's batch holds "t1" twice: the other call's reset fell between
\* its two token mints.
C2_Witness ==
    \E t \in DOMAIN th :
       /\ th[t].pc = "done"
       /\ Len(th[t].batch) >= 2
       /\ th[t].batch[1] = <<"t", "1">> /\ th[t].batch[2] = <<"t", "1">>
       /\ th[t].raced /\ cur = Len(heap) /\ Len(heap) = 3
====
